---------------------------- MODULE Spec2Model ----------------------------
(***************************************************************************)
(* Model of perfect-maze-generator (src/perfect-maze-generator/src/lib.rs) *)
(*                                                                         *)
(* PerfectMaze::new builds a wall array, draws a wall order and runs the   *)
(* wall tumbling loop (a Kruskal variant over a list of cell sets).  The   *)
(* model follows the construction call step by step:                       *)
(*                                                                         *)
(*   idle --New--> tumble --TumbleStep*--> ... --Return--> done            *)
(*        \--New (columns = 0 or rows = 0)--> panicked                     *)
(*   done --ToString--> done (text rendered)   done --Drop--> idle         *)
(*                                                                         *)
(* Indices are the code's: walls, cell_sets are functions on 0 .. n-1.     *)
(* wall_indices is iterated, never indexed, and is a sequence.             *)
(***************************************************************************)
EXTENDS Integers, Sequences, FiniteSets

\* ------------------------------------------------------------------ bounds
MaxColumns == 3
MaxRows == 3
\* seeds the caller may supply, and thread_rng may draw: 0 .. MaxSeed
MaxSeed == 5
\* SpecOrders enumerates every permutation of the walls of the grids that
\* have at most MaxWalls walls
MaxWalls == 7
\* conway-life: toggled cells lie within Radius of the origin (or at the
\* edge of the i32 range), at most MaxLiving cells are toggled on, simulate
\* runs MaxGenerations times, viewports are at most MaxWidth x MaxHeight and
\* at most MaxMarked positions are marked by hand
Radius == 1
MaxLiving == 3
MaxGenerations == 2
MaxWidth == 3
MaxHeight == 3
MaxMarked == 2
\* the application: at most MaxQueue events wait in the channel and at most
\* MaxInput characters are typed into the input line
MaxQueue == 2
MaxInput == 2

VARIABLES
    pc,            \* position of the program: idle, tumble, done, panicked
    args,          \* the arguments of the current call of new
    maze,          \* the PerfectMaze struct (NoMaze before line 100)
    wall_indices,  \* the walls still to visit, in order (the for loop's iterator)
    visited,       \* the walls already visited by the loop, in order
    cell_sets,     \* tumble_walls' list of cell sets
    generator,     \* what the shuffle's generator was seeded with, NoGenerator if none was made
    text,          \* the result of maze.to_string(), NoText before
    prev,          \* the previous finished construction, NoPrev before
    env_pc,        \* conway-life: running, or the call that panicked
    living_cells,  \* Environment.living_cells
    before,        \* living_cells as the latest simulate found them
    generation,    \* the number of calls of simulate so far
    viewport,      \* the Viewport struct, NoViewport before Viewport::new
    reset_by,      \* what last set the viewport's whole data: new, clear, fill_viewport
    marked,        \* the positions given to Viewport::set_living since then
    vtext          \* the result of viewport.to_string(), NoText before

life_vars == <<env_pc, living_cells, before, generation, viewport, reset_by, marked,
               vtext>>

VARIABLES
    app_pc,         \* App::run: idle, loop, joining, returned, failed
    input_pc,       \* the input thread: none, poll, tick, terminated
    channel,        \* the events sent and not yet received
    current_input,  \* handle_input's current_input
    send_result,    \* the result of the input thread's latest send: none, Ok, Err
    app_input,      \* run's current_input
    app_message,    \* run's current_message
    pause           \* App.pause

app_vars == <<app_pc, input_pc, channel, current_input, send_result, app_input,
              app_message, pause>>

vars == <<pc, args, maze, wall_indices, visited, cell_sets, generator, text, prev,
          life_vars, app_vars>>

\* ---------------------------------------------------------------- values
\* Option<u64>::None of the seed parameter
NoSeed == -1
\* no struct yet: a built maze has columns >= 1
NoMaze == [columns |-> 0, rows |-> 0, seed |-> 0, walls |-> <<>>]
NoText == <<>>
NoPrev == [maze |-> NoMaze, order |-> <<>>, text |-> NoText,
           args |-> [columns |-> 0, rows |-> 0, seed |-> NoSeed]]

\* Option<bool> and Option<()> results; an index out of bounds or an unwrap
\* of None is a panic
None == "None"
SomeUnit == "Some(())"
Some(b) == IF b THEN "Some(true)" ELSE "Some(false)"
Panic == "panic"

Min(S) == CHOOSE x \in S : \A y \in S : x <= y

\* ------------------------------------------------------------- Cell
Cell(row, column, total_columns) ==
    [row |-> row, column |-> column, total_columns |-> total_columns]

id(cell) == cell.row * cell.total_columns + cell.column

\* ------------------------------------------------------------- PerfectMaze
\* faulty variant: a row is given one wall too many
walls_per_row_even(self) == 2 * self.columns

walls_per_row(self) == 2 * self.columns - 1

\* faulty variant: a cell is refused only when both coordinates are out of range
is_valid_cell_and(self, row, column) ==
    IF row >= self.rows /\ column >= self.columns THEN None ELSE SomeUnit

is_valid_cell(self, row, column) ==
    IF row >= self.rows \/ column >= self.columns THEN None ELSE SomeUnit

\* faulty variant: the last column reads the wall array like any other
get_right_wall_no_boundary(self, row, column) ==
    IF is_valid_cell(self, row, column) = None THEN None
    ELSE LET wall_id == row * walls_per_row(self) + column
         IN  IF wall_id \in DOMAIN self.walls
             THEN Some(self.walls[wall_id]) ELSE Panic

\* faulty variant: the rows of the wall array are taken to be columns long
get_right_wall_wrong_stride(self, row, column) ==
    IF is_valid_cell(self, row, column) = None THEN None
    ELSE IF column = self.columns - 1 THEN Some(TRUE)
    ELSE LET wall_id == row * self.columns + column
         IN  IF wall_id \in DOMAIN self.walls
             THEN Some(self.walls[wall_id]) ELSE Panic

get_right_wall(self, row, column) ==
    IF is_valid_cell(self, row, column) = None THEN None
    ELSE IF column = self.columns - 1 THEN Some(TRUE)
    ELSE LET wall_id == row * walls_per_row(self) + column
         IN  IF wall_id \in DOMAIN self.walls
             THEN Some(self.walls[wall_id]) ELSE Panic

\* faulty variant: the bottom walls are looked up without the offset of the row's
\* vertical walls
get_bottom_wall_no_offset(self, row, column) ==
    IF is_valid_cell(self, row, column) = None THEN None
    ELSE IF row = self.rows - 1 THEN Some(TRUE)
    ELSE LET wall_id == row * walls_per_row(self) + column
         IN  IF wall_id \in DOMAIN self.walls
             THEN Some(self.walls[wall_id]) ELSE Panic

get_bottom_wall(self, row, column) ==
    IF is_valid_cell(self, row, column) = None THEN None
    ELSE IF row = self.rows - 1 THEN Some(TRUE)
    ELSE LET wall_id == row * walls_per_row(self) + (self.columns - 1) + column
         IN  IF wall_id \in DOMAIN self.walls
             THEN Some(self.walls[wall_id]) ELSE Panic

\* faulty variant: one wall too many of each row is taken for a vertical wall
cell_pair_from_wall_le(self, wall_id) ==
    LET current_row == wall_id \div walls_per_row(self)
        wall_in_row == wall_id % walls_per_row(self)
        is_vertical == wall_in_row <= (self.columns - 1)
        total_columns == self.columns
    IN  IF is_vertical
        THEN <<Cell(current_row, wall_in_row, total_columns),
               Cell(current_row, wall_in_row + 1, total_columns)>>
        ELSE LET column == wall_in_row - (self.columns - 1)
             IN  <<Cell(current_row, column, total_columns),
                   Cell(current_row + 1, column, total_columns)>>

cell_pair_from_wall(self, wall_id) ==
    LET current_row == wall_id \div walls_per_row(self)
        wall_in_row == wall_id % walls_per_row(self)
        is_vertical == wall_in_row < (self.columns - 1)
        total_columns == self.columns
    IN  IF is_vertical
        THEN <<Cell(current_row, wall_in_row, total_columns),
               Cell(current_row, wall_in_row + 1, total_columns)>>
        ELSE LET column == wall_in_row - (self.columns - 1)
             IN  <<Cell(current_row, column, total_columns),
                   Cell(current_row + 1, column, total_columns)>>

\* the first set that contains the cell; NoSet is Option<usize>::None
NoSet == -1

get_set_with_cell(sets, cell_id) ==
    LET found == {set_id \in DOMAIN sets : cell_id \in sets[set_id]}
    IN  IF found = {} THEN NoSet ELSE Min(found)

\* ------------------------------------------------- the seeded wall order
\* RandomGenerator::seed_from_u64(seed) and the generator's next output.  The
\* generator is rand_xoshiro's; the model keeps what new relies on: the
\* stream is a function of the seed alone.
seed_from_u64(seed) == seed % 61

next_u64(rng) == (rng * 17 + 7) % 61

\* rand's SliceRandom::shuffle: for i in (1..len).rev() { swap(i, gen_index(rng, i + 1)) }
RECURSIVE shuffle_from(_, _, _)
shuffle_from(slice, i, rng) ==
    IF i < 1 THEN slice
    ELSE LET drawn == next_u64(rng)
             j == drawn % (i + 1)
             swapped == [slice EXCEPT ![i + 1] = slice[j + 1], ![j + 1] = slice[i + 1]]
         IN  shuffle_from(swapped, i - 1, drawn)

shuffle(slice, rng) == shuffle_from(slice, Len(slice) - 1, rng)

\* faulty variant: every row is given its walls_per_row walls, the last too
total_walls_of_every_row(columns, rows) == (2 * columns - 1) * rows

\* line 88: vertical_walls * rows + horizontal_walls * columns
total_walls_of(columns, rows) == (columns - 1) * rows + (rows - 1) * columns

\* faulty variant: the last wall is left out of the order
identity_order_short(total_walls) == [i \in 1 .. total_walls - 1 |-> i - 1]

\* faulty variant: the walls are collected from the last to the first
identity_order_reversed(total_walls) == [i \in 1 .. total_walls |-> total_walls - i]

\* (0..total_walls).collect()
identity_order(total_walls) == [i \in 1 .. total_walls |-> i - 1]

\* no generator is made when the seed is zero
NoGenerator == -1

\* faulty variant: the zero seed is passed to the generator like any other
wall_order_always_shuffles(total_walls, seed) ==
    [wall_indices |-> shuffle(identity_order(total_walls), seed_from_u64(seed)),
     generator |-> seed]

\* faulty variant: the generator is not made from the seed alone, it carries on from
\* where the previous construction left it
wall_order_shared_rng(total_walls, seed) ==
    IF seed # 0
    THEN [wall_indices |-> shuffle(identity_order(total_walls),
                                   seed_from_u64(seed + Len(prev.order))),
          generator |-> seed]
    ELSE [wall_indices |-> identity_order(total_walls), generator |-> NoGenerator]

\* lines 93-97: the identity order, shuffled by a generator made from the
\* seed unless the seed is zero
wall_order(total_walls, seed) ==
    IF seed # 0
    THEN [wall_indices |-> shuffle(identity_order(total_walls), seed_from_u64(seed)),
          generator |-> seed]
    ELSE [wall_indices |-> identity_order(total_walls), generator |-> NoGenerator]

\* faulty variant: the last cell is given no set
initial_cell_sets_short(total_cells) == [index \in 0 .. total_cells - 2 |-> {index}]

\* lines 199-204: one singleton set per cell
initial_cell_sets(total_cells) == [index \in 0 .. total_cells - 1 |-> {index}]

\* ------------------------------------------------------------ new
Seeds == 0 .. MaxSeed

\* faulty variant: only the grid with both dimensions zero is refused
dimensions_rejected_both(columns, rows) == columns = 0 /\ rows = 0

\* lines 78-79: assert_ne!(columns, 0); assert_ne!(rows, 0)
dimensions_rejected(columns, rows) == columns = 0 \/ rows = 0

\* the body of new after the seed is known, up to the first loop iteration
Construct(columns, rows, seed, order) ==
    /\ maze' = [columns |-> columns, rows |-> rows, seed |-> seed,
                walls |-> [w \in 0 .. total_walls_of(columns, rows) - 1 |-> TRUE]]
    /\ wall_indices' = order.wall_indices
    /\ generator' = order.generator
    /\ visited' = <<>>
    /\ cell_sets' = initial_cell_sets(rows * columns)
    /\ pc' = "tumble"

\* faulty variant: when no seed is supplied the struct keeps 0, not the drawn
\* seed the walls were ordered with
New_keeps_zero(columns, rows, seed) ==
    /\ pc = "idle"
    /\ args' = [columns |-> columns, rows |-> rows, seed |-> seed]
    /\ text' = NoText
    /\ UNCHANGED <<prev, life_vars, app_vars>>
    /\ IF dimensions_rejected(columns, rows)
       THEN /\ pc' = "panicked"
            /\ UNCHANGED <<maze, wall_indices, visited, cell_sets, generator>>
       ELSE \E drawn \in Seeds :
               LET used == IF seed = NoSeed THEN drawn ELSE seed
                   kept == IF seed = NoSeed THEN 0 ELSE seed
               IN  /\ seed # NoSeed => drawn = 0
                   /\ Construct(columns, rows, kept,
                                wall_order(total_walls_of(columns, rows), used))

New(columns, rows, seed) ==
    /\ pc = "idle"
    /\ args' = [columns |-> columns, rows |-> rows, seed |-> seed]
    /\ text' = NoText
    /\ UNCHANGED <<prev, life_vars, app_vars>>
    /\ IF dimensions_rejected(columns, rows)
       THEN /\ pc' = "panicked"
            /\ UNCHANGED <<maze, wall_indices, visited, cell_sets, generator>>
       ELSE \E drawn \in Seeds :
               \* seed.unwrap_or_else(|| thread_rng().next_u64()): a seed is
               \* drawn only when none is supplied
               LET used == IF seed = NoSeed THEN drawn ELSE seed
               IN  /\ seed # NoSeed => drawn = 0
                   /\ Construct(columns, rows, used,
                                wall_order(total_walls_of(columns, rows), used))

\* ------------------------------------------------------------ tumble_walls
\* faulty variant: every visited wall is cleared, connected or not
tumbled_walls_always(walls, current_wall, id_set_a, id_set_b) ==
    [walls EXCEPT ![current_wall] = FALSE]

\* faulty variant: the comparison of the set ids is inverted
tumbled_walls_inverted(walls, current_wall, id_set_a, id_set_b) ==
    IF id_set_a = id_set_b THEN [walls EXCEPT ![current_wall] = FALSE] ELSE walls

\* faulty variant: the wall after the visited one is cleared
tumbled_walls_off_by_one(walls, current_wall, id_set_a, id_set_b) ==
    IF id_set_a # id_set_b /\ current_wall + 1 \in DOMAIN walls
    THEN [walls EXCEPT ![current_wall + 1] = FALSE]
    ELSE walls

\* lines 214-225: the walls and the sets after the visit of one wall whose
\* cells are in the sets id_set_a and id_set_b
tumbled_walls(walls, current_wall, id_set_a, id_set_b) ==
    IF id_set_a # id_set_b THEN [walls EXCEPT ![current_wall] = FALSE] ELSE walls

\* faulty variant: the second set is not emptied after the merge
merged_sets_keeps_b(sets, id_set_a, id_set_b) ==
    IF id_set_a # id_set_b
    THEN [sets EXCEPT ![id_set_a] = sets[id_set_a] \union sets[id_set_b]]
    ELSE sets

\* faulty variant: the first set is replaced by the second, not extended
merged_sets_overwrites(sets, id_set_a, id_set_b) ==
    IF id_set_a # id_set_b
    THEN [[sets EXCEPT ![id_set_a] = sets[id_set_b]] EXCEPT ![id_set_b] = {}]
    ELSE sets

merged_sets(sets, id_set_a, id_set_b) ==
    IF id_set_a # id_set_b
    THEN LET new_set == sets[id_set_a] \union sets[id_set_b]
         IN  [[sets EXCEPT ![id_set_a] = new_set] EXCEPT ![id_set_b] = {}]
    ELSE sets

TumbleStep ==
    /\ pc = "tumble"
    /\ wall_indices # <<>>
    /\ LET current_wall == Head(wall_indices)
           pair == cell_pair_from_wall(maze, current_wall)
           id_set_a == get_set_with_cell(cell_sets, id(pair[1]))
           id_set_b == get_set_with_cell(cell_sets, id(pair[2]))
       IN  IF \/ id_set_a = NoSet
              \/ id_set_b = NoSet
              \/ (id_set_a # id_set_b /\ current_wall \notin DOMAIN maze.walls)
           THEN \* unwrap of None, or an index out of bounds
                /\ pc' = "panicked"
                /\ UNCHANGED <<maze, wall_indices, visited, cell_sets>>
           ELSE /\ maze' = [maze EXCEPT !.walls =
                              tumbled_walls(maze.walls, current_wall, id_set_a, id_set_b)]
                /\ cell_sets' = merged_sets(cell_sets, id_set_a, id_set_b)
                /\ wall_indices' = Tail(wall_indices)
                /\ visited' = Append(visited, current_wall)
                /\ pc' = pc
    /\ UNCHANGED <<args, generator, text, prev, life_vars, app_vars>>

\* the loop is over: tumble_walls returns, and new returns the maze
Return ==
    /\ pc = "tumble"
    /\ wall_indices = <<>>
    /\ pc' = "done"
    /\ UNCHANGED <<args, maze, wall_indices, visited, cell_sets, generator, text, prev,
                   life_vars, app_vars>>

\* ------------------------------------------------------------ Display
H_WALL == "_"
V_WALL == "|"
EMPTY == " "
NEWLINE == "\n"

\* faulty variant: the top border counts the columns twice
top_wall_size_doubled(self) ==
    LET vertical_walls == self.columns - 1
    IN  2 * self.columns + vertical_walls + 2

\* faulty variant: the two corner characters are not counted
top_wall_size_no_corners(self) ==
    LET vertical_walls == self.columns - 1
        horizontal_walls == self.columns
    IN  vertical_walls + horizontal_walls

top_wall_size(self) ==
    LET vertical_walls == self.columns - 1
        horizontal_walls == self.columns
    IN  vertical_walls + horizontal_walls + 2

\* the two characters of one cell: bottom wall, then right wall
\* faulty variant: the right wall is written before the bottom wall
cell_chars_swapped(self, row, column) ==
    << IF get_right_wall(self, row, column) = Some(TRUE) THEN V_WALL ELSE EMPTY,
       IF get_bottom_wall(self, row, column) = Some(TRUE) THEN H_WALL ELSE EMPTY >>

cell_chars(self, row, column) ==
    << IF get_bottom_wall(self, row, column) = Some(TRUE) THEN H_WALL ELSE EMPTY,
       IF get_right_wall(self, row, column) = Some(TRUE) THEN V_WALL ELSE EMPTY >>

RECURSIVE columns_chars(_, _, _)
columns_chars(self, row, column) ==
    IF column >= self.columns THEN <<>>
    ELSE cell_chars(self, row, column) \o columns_chars(self, row, column + 1)

\* faulty variant: the left border of a row is not written
RECURSIVE rows_chars_no_left_border(_, _)
rows_chars_no_left_border(self, row) ==
    IF row >= self.rows THEN <<>>
    ELSE columns_chars(self, row, 0) \o <<NEWLINE>>
         \o rows_chars_no_left_border(self, row + 1)

RECURSIVE rows_chars(_, _)
rows_chars(self, row) ==
    IF row >= self.rows THEN <<>>
    ELSE <<V_WALL>> \o columns_chars(self, row, 0) \o <<NEWLINE>>
         \o rows_chars(self, row + 1)

fmt(self) ==
    [i \in 1 .. top_wall_size(self) |-> H_WALL] \o <<NEWLINE>> \o rows_chars(self, 0)

\* get_bottom_wall(row, column).unwrap() or get_right_wall(row, column).unwrap()
\* fails for a cell of the grid
fmt_panics(self) ==
    \E row \in 0 .. self.rows - 1, column \in 0 .. self.columns - 1 :
        \/ get_bottom_wall(self, row, column) \notin {Some(TRUE), Some(FALSE)}
        \/ get_right_wall(self, row, column) \notin {Some(TRUE), Some(FALSE)}

ToString ==
    /\ pc = "done"
    /\ text = NoText
    /\ IF fmt_panics(maze)
       THEN pc' = "panicked" /\ text' = text
       ELSE pc' = pc /\ text' = fmt(maze)
    /\ UNCHANGED <<args, maze, wall_indices, visited, cell_sets, generator, prev,
                   life_vars, app_vars>>

\* the maze goes out of scope; the program may build another one
Drop ==
    /\ pc = "done"
    /\ prev' = [maze |-> maze, order |-> visited, text |-> text, args |-> args]
    /\ pc' = "idle"
    /\ maze' = NoMaze
    /\ wall_indices' = <<>>
    /\ visited' = <<>>
    /\ cell_sets' = <<>>
    /\ generator' = NoGenerator
    /\ text' = NoText
    /\ UNCHANGED <<args, life_vars, app_vars>>

\* ------------------------------------------------------------ conway-life
I32_MAX == 2147483647
I32_MIN == -I32_MAX - 1

SimCell(x, y) == [x |-> x, y |-> y]

NoViewport == [x |-> 0, width |-> 0, y |-> 0, height |-> 0, data |-> <<>>]

\* v - 1 and v + 1 in i32 as a build without overflow checks computes them
wrapping_sub(v) == IF v = I32_MIN THEN I32_MAX ELSE v - 1
wrapping_add(v) == IF v = I32_MAX THEN I32_MIN ELSE v + 1

\* lines 72-73: computing the bounds of (v - 1)..=(v + 1) overflows
range_overflows(v) == v = I32_MIN \/ v = I32_MAX

\* lines 72-73: the values (v - 1)..=(v + 1) runs through; none when the
\* wrapped lower bound is above the wrapped upper bound
range_inclusive(v) ==
    {i \in {wrapping_sub(v), v, wrapping_add(v)} :
        wrapping_sub(v) <= i /\ i <= wrapping_add(v)}

\* lines 71-83: the cells whose count the living cell increments
counted_by(cell) ==
    {SimCell(x, y) : x \in range_inclusive(cell.x), y \in range_inclusive(cell.y)}
        \ {cell}

\* lines 70-83: the neighboors map, as a function on its keys
neighboors(cells) ==
    [n \in UNION {counted_by(cell) : cell \in cells} |->
        Cardinality({cell \in cells : n \in counted_by(cell)})]

\* lines 85-97: living_cells after the insertions and the retain
simulate(cells) ==
    LET counts == neighboors(cells)
        inserted == cells \union {n \in DOMAIN counts : counts[n] = 3}
    IN  {c \in inserted : c \in DOMAIN counts /\ (counts[c] = 2 \/ counts[c] = 3)}

\* lines 72-73 in a build with overflow checks: the subtraction or the
\* addition panics on a living cell at the edge of the i32 range
simulate_overflows(cells) ==
    \E cell \in cells : range_overflows(cell.x) \/ range_overflows(cell.y)

right(self) == self.x + self.width
bottom(self) == self.y - self.height

in_viewport(self, x, y) ==
    x >= self.x /\ x < right(self) /\ y <= self.y /\ y > bottom(self)

abs(v) == IF v < 0 THEN -v ELSE v

\* lines 139-148: the assertions of Viewport::new
viewport_rejected(x, y, width, height) ==
    \/ width = 0
    \/ height = 0
    \/ x > I32_MAX - width
    \/ y < I32_MIN + height

viewport_new(x, y, width, height) ==
    [x |-> x, width |-> width, y |-> y, height |-> height,
     data |-> [index \in 0 .. width * height - 1 |-> FALSE]]

clear(self) == [self EXCEPT !.data = [index \in DOMAIN self.data |-> FALSE]]

\* lines 183-189 of Viewport::set_living, after its assertion
set_living(self, x, y) ==
    LET row == abs(x - self.x)
        column == abs(y - self.y)
        index == row * self.width + column
    IN  IF index \in DOMAIN self.data
        THEN [self EXCEPT !.data[index] = TRUE]
        ELSE self

\* the BTreeSet's iteration order
cell_before(a, b) == a.x < b.x \/ (a.x = b.x /\ a.y < b.y)

RECURSIVE fill_from(_, _)
fill_from(self, cells) ==
    IF cells = {} THEN self
    ELSE LET c == CHOOSE c \in cells : \A d \in cells \ {c} : cell_before(c, d)
             next == IF in_viewport(self, c.x, c.y) THEN set_living(self, c.x, c.y)
                     ELSE self
         IN  fill_from(next, cells \ {c})

fill_viewport(cells, self) == fill_from(clear(self), cells)

LIVING == "x"
DEAD == " "

RECURSIVE viewport_chars(_, _)
viewport_chars(self, i) ==
    IF i \notin DOMAIN self.data THEN <<>>
    ELSE (IF i # 0 /\ i % self.width = 0 THEN <<NEWLINE>> ELSE <<>>)
         \o <<IF self.data[i] THEN LIVING ELSE DEAD>>
         \o viewport_chars(self, i + 1)

viewport_fmt(self) == viewport_chars(self, 0)

\* Environment::new(), and no viewport yet
EnvironmentNew ==
    /\ env_pc = "running"
    /\ living_cells = {}
    /\ before = {}
    /\ generation = 0
    /\ viewport = NoViewport
    /\ reset_by = "new"
    /\ marked = {}
    /\ vtext = NoText

maze_vars == <<pc, args, maze, wall_indices, visited, cell_sets, generator, text, prev>>
viewport_vars == <<viewport, reset_by, marked, vtext>>

\* the cells the driver toggles: around the origin, and at the edge of i32
Window ==
    {SimCell(x, y) : x \in -Radius .. Radius, y \in -Radius .. Radius}
        \union {SimCell(x, y) : x \in {I32_MAX - 1, I32_MAX}, y \in -1 .. 1}

\* the start patterns of tests.rs
Block == {SimCell(1, 0), SimCell(1, 1), SimCell(2, 0), SimCell(2, 1)}
Beehive == {SimCell(2, 1), SimCell(3, 1), SimCell(1, 0), SimCell(4, 0),
            SimCell(2, -1), SimCell(3, -1)}
Tub == {SimCell(2, 1), SimCell(1, 0), SimCell(3, 0), SimCell(2, -1)}
BlinkerStart == {SimCell(2, 1), SimCell(2, 0), SimCell(2, -1)}
BlinkerEnd == {SimCell(1, 0), SimCell(2, 0), SimCell(3, 0)}
ToadStart == {SimCell(2, 1), SimCell(3, 1), SimCell(4, 1),
              SimCell(1, 0), SimCell(2, 0), SimCell(3, 0)}
ToadEnd == {SimCell(3, 2), SimCell(1, 1), SimCell(4, 1),
            SimCell(1, 0), SimCell(4, 0), SimCell(2, -1)}
Plus == {SimCell(0, 1), SimCell(-1, 0), SimCell(0, 0), SimCell(1, 0), SimCell(0, -1)}
Patterns == {Block, Beehive, Tub, BlinkerStart, BlinkerEnd, ToadStart, ToadEnd, Plus}

\* the environment is set up and run before it is viewed, as in tests.rs
ToggleCell ==
    \E cell \in Window :
        /\ env_pc = "running" /\ generation = 0 /\ viewport = NoViewport
        /\ IF cell \in living_cells
           THEN living_cells' = living_cells \ {cell}
           ELSE /\ Cardinality(living_cells) < MaxLiving
                /\ living_cells' = living_cells \union {cell}
        /\ UNCHANGED <<env_pc, before, generation, viewport_vars, maze_vars, app_vars>>

EnvSetLiving ==
    \E cells \in Patterns :
        /\ env_pc = "running" /\ generation = 0 /\ viewport = NoViewport
        /\ living_cells = {}
        /\ living_cells' = living_cells \union cells
        /\ UNCHANGED <<env_pc, before, generation, viewport_vars, maze_vars, app_vars>>

Simulate ==
    /\ env_pc = "running" /\ viewport = NoViewport
    /\ generation < MaxGenerations
    /\ before' = living_cells
    /\ generation' = generation + 1
    /\ \/ /\ living_cells' = simulate(living_cells)
          /\ env_pc' = env_pc
       \/ \* a build with overflow checks
          /\ simulate_overflows(living_cells)
          /\ living_cells' = living_cells
          /\ env_pc' = "simulate panicked"
    /\ UNCHANGED <<viewport_vars, maze_vars, app_vars>>

\* the viewport of the tests, at (-1, 1), or one at (0, 2), of any size
ViewportNew ==
    \E x \in {-1, 0}, width \in 0 .. MaxWidth, height \in 0 .. MaxHeight :
        LET y == x + 2 IN
        /\ env_pc = "running" /\ viewport = NoViewport
        /\ IF viewport_rejected(x, y, width, height)
           THEN env_pc' = "new panicked" /\ viewport' = viewport
           ELSE env_pc' = env_pc /\ viewport' = viewport_new(x, y, width, height)
        /\ UNCHANGED <<living_cells, before, generation, reset_by, marked, vtext,
                       maze_vars, app_vars>>

ViewportClear ==
    /\ env_pc = "running" /\ viewport # NoViewport
    /\ reset_by # "clear" \/ marked # {}
    /\ viewport' = clear(viewport)
    /\ reset_by' = "clear"
    /\ marked' = {}
    /\ vtext' = NoText
    /\ UNCHANGED <<env_pc, living_cells, before, generation, maze_vars, app_vars>>

\* the driver marks by hand what is not an environment's view
ViewportSetLiving ==
    \E x \in -2 .. MaxWidth, y \in -MaxHeight .. 2 :
        /\ env_pc = "running" /\ viewport # NoViewport
        /\ living_cells = {} /\ generation = 0
        /\ reset_by # "fill" /\ Cardinality(marked) < MaxMarked
        /\ IF ~in_viewport(viewport, x, y)
           THEN /\ env_pc' = "set_living panicked"
                /\ UNCHANGED <<viewport, marked, vtext>>
           ELSE /\ env_pc' = env_pc
                /\ viewport' = set_living(viewport, x, y)
                /\ marked' = marked \union {SimCell(x, y)}
                /\ vtext' = NoText
        /\ UNCHANGED reset_by
        /\ UNCHANGED <<living_cells, before, generation, maze_vars, app_vars>>

FillViewport ==
    /\ env_pc = "running" /\ viewport # NoViewport
    /\ reset_by # "fill"
    /\ viewport' = fill_viewport(living_cells, viewport)
    /\ reset_by' = "fill"
    /\ marked' = {c \in living_cells : in_viewport(viewport, c.x, c.y)}
    /\ vtext' = NoText
    /\ UNCHANGED <<env_pc, living_cells, before, generation, maze_vars, app_vars>>

ViewportToString ==
    /\ env_pc = "running" /\ viewport # NoViewport
    /\ vtext = NoText
    /\ vtext' = viewport_fmt(viewport)
    /\ UNCHANGED <<env_pc, living_cells, before, generation, viewport, reset_by, marked,
                   maze_vars, app_vars>>

\* ------------------------------------------------------------ application
\* the AppEvent values the keys of the model can produce
AppEvent(type, input) == [type |-> type, input |-> input]
Tick == AppEvent("Tick", <<>>)
Quit == AppEvent("Quit", <<>>)
Pause == AppEvent("Pause", <<>>)
PartialInput(input) == AppEvent("PartialInput", input)
ErrorInput(input) == AppEvent("ErrorInput", input)

\* the keys pressed in the model; any other key event is KeyOther
KeyEsc == "Esc"
KeyEnter == "Enter"
KeyBackspace == "Backspace"
KeyOther == "Other"
Chars == {"q", "p"}
Keys == {KeyEsc, KeyEnter, KeyBackspace, KeyOther} \union Chars

\* lines 265-303, on the inputs the model can type: "q" quits, "p" pauses,
\* anything else is an unknown instruction
parse_input(input) ==
    IF input = <<"q">> THEN Quit
    ELSE IF input = <<"p">> THEN Pause
    ELSE ErrorInput(input)

\* App::default(): the F-pentomino
FPentomino ==
    {SimCell(0, 1), SimCell(1, 1), SimCell(-1, 0), SimCell(0, 0), SimCell(0, -1)}

\* the receiver is dropped when run returns, and by drop(rx) at line 182
rx_dropped == app_pc \in {"joining", "returned", "failed"}

\* lines 223-247: the event a key sends and the input left after it; no
\* event for a key event that is no press of Esc, a character, Backspace or
\* Enter
NoEvent == AppEvent("none", <<>>)

key_event(key, input) ==
    IF key = KeyEsc THEN Quit
    ELSE IF key \in Chars THEN PartialInput(Append(input, key))
    ELSE IF key = KeyBackspace
         THEN PartialInput(IF input = <<>> THEN input ELSE SubSeq(input, 1, Len(input) - 1))
    ELSE IF key = KeyEnter
         THEN (IF input # <<>> THEN parse_input(input) ELSE PartialInput(<<>>))
    ELSE NoEvent

key_input(key, input) ==
    IF key \in Chars THEN Append(input, key)
    ELSE IF key = KeyBackspace
         THEN (IF input = <<>> THEN input ELSE SubSeq(input, 1, Len(input) - 1))
    ELSE IF key = KeyEnter THEN <<>>
    ELSE input

\* lines 111-118: the viewport of the terminal's area
area_viewport(width, height) ==
    viewport_new(-(width \div 2), height \div 2, width, height)

\* App::default() and run up to the first recv: the terminal is set up, the
\* input thread spawned and the first frame drawn, on a terminal whose
\* simulation area is MaxWidth x MaxHeight
AppRun ==
    \E width \in {MaxWidth}, height \in {MaxHeight}, terminal_ok \in BOOLEAN :
        /\ app_pc = "idle" /\ env_pc = "running"
        /\ living_cells = {} /\ generation = 0 /\ viewport = NoViewport
        /\ living_cells' = FPentomino
        /\ IF terminal_ok
           THEN /\ app_pc' = "loop"
                /\ input_pc' = "poll"
                /\ viewport' = area_viewport(width, height)
                /\ vtext' = viewport_fmt(area_viewport(width, height))
           ELSE /\ app_pc' = "failed"
                /\ UNCHANGED <<input_pc, viewport, vtext>>
        /\ UNCHANGED <<channel, current_input, send_result, app_input, app_message, pause,
                       env_pc, before, generation, reset_by, marked, maze_vars>>

\* lines 132-178 and the draw of the next iteration: one event is received
\* and handled.  (recv cannot fail: the sender lives as long as the input
\* thread, which ends only after the receiver is gone.)
MainRecv ==
    /\ app_pc = "loop"
    /\ channel # <<>>
    /\ channel' = Tail(channel)
    /\ LET received == Head(channel)
       IN  IF received = Quit
           THEN \E terminal_ok \in BOOLEAN :
                   /\ app_pc' = IF terminal_ok THEN "joining" ELSE "failed"
                   /\ UNCHANGED <<app_input, app_message, pause, life_vars>>
           ELSE IF received = Tick
           THEN \E stepped \in {IF ~pause THEN simulate(living_cells) ELSE living_cells} :
                \E filled \in {fill_viewport(stepped, viewport)} :
                   /\ IF ~pause
                      THEN /\ living_cells' = stepped
                           /\ before' = living_cells
                           /\ generation' = generation + 1
                      ELSE UNCHANGED <<living_cells, before, generation>>
                   /\ viewport' = filled
                   /\ reset_by' = "fill"
                   /\ marked' = {c \in stepped : in_viewport(viewport, c.x, c.y)}
                   /\ vtext' = viewport_fmt(filled)
                   /\ UNCHANGED <<app_pc, app_input, app_message, pause, env_pc>>
           ELSE /\ app_input' = IF received.type \in {"PartialInput", "ErrorInput"}
                                THEN received.input ELSE app_input
                /\ app_message' = IF received.type = "ErrorInput" THEN "Unknown instruction"
                                  ELSE IF received.type = "PartialInput" THEN ""
                                  ELSE app_message
                /\ pause' = IF received = Pause THEN ~pause ELSE pause
                /\ UNCHANGED <<app_pc, life_vars>>
    /\ UNCHANGED <<input_pc, current_input, send_result, maze_vars>>

\* line 183: join returns once the input thread has ended
MainJoin ==
    /\ app_pc = "joining"
    /\ input_pc = "terminated"
    /\ app_pc' = "returned"
    /\ UNCHANGED <<input_pc, channel, current_input, send_result, app_input, app_message,
                   pause, life_vars, maze_vars>>

\* lines 216-254: poll returns; a key event, if there is one, is turned into
\* an event and sent, and a failed send ends the loop
InputPoll ==
    \E key \in Keys \union {"none"} :
        /\ input_pc = "poll"
        /\ LET sent == key_event(key, current_input)
           IN  IF key = "none" \/ sent = NoEvent
               THEN /\ input_pc' = "tick"
                    /\ UNCHANGED <<channel, current_input, send_result>>
               ELSE IF rx_dropped
               THEN /\ input_pc' = "terminated"
                    /\ send_result' = "Err"
                    /\ current_input' = key_input(key, current_input)
                    /\ UNCHANGED channel
               ELSE /\ Len(channel) < MaxQueue
                    /\ Len(key_input(key, current_input)) <= MaxInput
                    /\ channel' = Append(channel, sent)
                    /\ send_result' = "Ok"
                    /\ current_input' = key_input(key, current_input)
                    /\ input_pc' = "tick"
        /\ UNCHANGED <<app_pc, app_input, app_message, pause, life_vars, maze_vars>>

\* lines 256-260: when the tick time has elapsed a Tick is sent; a failed
\* send leaves last_tick as it was, and the loop goes on
InputTick ==
    \E elapsed \in BOOLEAN :
        /\ input_pc = "tick"
        /\ input_pc' = "poll"
        /\ IF ~elapsed THEN UNCHANGED <<channel, send_result>>
           ELSE IF rx_dropped
           THEN send_result' = "Err" /\ UNCHANGED channel
           ELSE /\ Len(channel) < MaxQueue
                /\ generation < MaxGenerations
                /\ channel' = Append(channel, Tick)
                /\ send_result' = "Ok"
        /\ UNCHANGED <<app_pc, current_input, app_input, app_message, pause,
                       life_vars, maze_vars>>

\* ------------------------------------------------------------ specifications
\* App::run has not been called
AppNotStarted ==
    /\ app_pc = "idle"
    /\ input_pc = "none"
    /\ channel = <<>>
    /\ current_input = <<>>
    /\ send_result = "none"
    /\ app_input = <<>>
    /\ app_message = ""
    /\ pause = FALSE

NoArgs == [columns |-> 0, rows |-> 0, seed |-> NoSeed]

Init ==
    /\ pc = "idle"
    /\ args = NoArgs
    /\ maze = NoMaze
    /\ wall_indices = <<>>
    /\ visited = <<>>
    /\ cell_sets = <<>>
    /\ generator = NoGenerator
    /\ text = NoText
    /\ prev = NoPrev
    /\ EnvironmentNew
    /\ AppNotStarted

NewCall ==
    \E columns \in 0 .. MaxColumns, rows \in 0 .. MaxRows, seed \in Seeds \union {NoSeed} :
        New(columns, rows, seed)

Next == NewCall \/ TumbleStep \/ Return \/ ToString \/ Drop

Spec == Init /\ [][Next]_vars

\* new with the generator abstracted away: on the grids of at most MaxWalls
\* walls the shuffle may give any permutation of the walls (one nonzero seed
\* stands for them all); on the larger grids the orders are those of the
\* seeds.  One construction per behaviour.
RECURSIVE Permutations(_)
Permutations(S) ==
    IF S = {} THEN {<<>>}
    ELSE UNION {{<<x>> \o p : p \in Permutations(S \ {x})} : x \in S}

any_wall_order(total_walls, seed) ==
    IF seed # 0 /\ total_walls <= MaxWalls
    THEN {[wall_indices |-> p, generator |-> seed] :
             p \in Permutations(0 .. total_walls - 1)}
    ELSE {wall_order(total_walls, seed)}

NewAnyOrder ==
    \E columns \in 1 .. MaxColumns, rows \in 1 .. MaxRows, seed \in Seeds :
        /\ pc = "idle"
        /\ total_walls_of(columns, rows) <= MaxWalls => seed <= 1
        /\ args' = [columns |-> columns, rows |-> rows, seed |-> seed]
        /\ text' = NoText
        /\ UNCHANGED <<prev, life_vars, app_vars>>
        /\ \E order \in any_wall_order(total_walls_of(columns, rows), seed) :
              Construct(columns, rows, seed, order)

NextOrders == NewAnyOrder \/ TumbleStep \/ Return \/ ToString

SpecOrders == Init /\ [][NextOrders]_vars

\* the conway-life library under a driver
NextLife ==
    \/ ToggleCell \/ EnvSetLiving \/ Simulate
    \/ ViewportNew \/ ViewportClear \/ ViewportSetLiving \/ FillViewport
    \/ ViewportToString

SpecLife == Init /\ [][NextLife]_vars

\* the application: after run has spawned the input thread, that thread keeps
\* polling and ticking and the main thread returns from join once it can; the
\* main thread's recv blocks on the channel and needs no fairness for what
\* follows the receipt of Quit; no key is ever bound to be pressed
NextApp == AppRun \/ MainRecv \/ MainJoin \/ InputPoll \/ InputTick

SpecApp ==
    /\ Init /\ [][NextApp]_vars
    /\ WF_vars(MainJoin) /\ WF_vars(InputPoll) /\ WF_vars(InputTick)


\* ================================================================ claims
\* the maze as its queries show it: the cells of the grid, and a passage
\* between two neighbouring cells where the wall between them is reported absent
Cells(self) == (0 .. self.rows - 1) \X (0 .. self.columns - 1)

Passages(self) ==
    {e \in Cells(self) \X Cells(self) :
        \/ /\ e[2] = <<e[1][1], e[1][2] + 1>>
           /\ get_right_wall(self, e[1][1], e[1][2]) = Some(FALSE)
        \/ /\ e[2] = <<e[1][1] + 1, e[1][2]>>
           /\ get_bottom_wall(self, e[1][1], e[1][2]) = Some(FALSE)}

\* the cells one edge away from the cells seen
OneAway(E, seen) ==
    {e[2] : e \in {x \in E : x[1] \in seen}}
        \union {e[1] : e \in {x \in E : x[2] \in seen}}

\* the cells reachable from the cells seen (each round is computed once)
RECURSIVE ReachFrom(_, _)
ReachFrom(E, seen) ==
    CHOOSE reached \in
        {IF next = s THEN s ELSE ReachFrom(E, next) :
            <<s, next>> \in {<<s, s \union OneAway(E, s)>> : s \in {seen}}} : TRUE

Connected(self) == ReachFrom(Passages(self), {<<0, 0>>}) = Cells(self)

\* no passage closes a cycle: without it, its two cells are not connected
Acyclic(self) ==
    \A e \in Passages(self) : e[2] \notin ReachFrom(Passages(self) \ {e}, {e[1]})

Cleared(walls) == {w \in DOMAIN walls : walls[w] = FALSE}

IsIdentity(order) == \A i \in 1 .. Len(order) : order[i] = i - 1

\* C1: for every columns >= 1, rows >= 1 and every wall order, the wall array
\* of the maze that new returns has exactly rows * columns - 1 cleared entries.
C1_ClearedWallCount ==
    pc = "done" =>
        Cardinality(Cleared(maze.walls)) = maze.rows * maze.columns - 1

\* a 2 x 3 maze built in a shuffled order, with its 5 cleared walls
C1_Witness ==
    /\ pc = "done"
    /\ maze.columns = 2 /\ maze.rows = 3
    /\ ~IsIdentity(visited)
    /\ Len(visited) = 7
    /\ Cardinality(Cleared(maze.walls)) = 5

\* C2: for every columns >= 1, rows >= 1 and every wall order, the cells of
\* the finished maze with the cleared walls as edges form a connected and
\* acyclic graph (exactly one path between any two cells).
C2_PerfectMaze ==
    pc = "done" => Connected(maze) /\ Acyclic(maze)

\* a 3 x 2 maze built in a shuffled order that left wall 0 in place
C2_Witness ==
    /\ pc = "done"
    /\ maze.columns = 3 /\ maze.rows = 2
    /\ ~IsIdentity(visited)
    /\ maze.walls[0] = TRUE
    /\ Connected(maze)


MazeBuilt == pc \in {"tumble", "done"}

\* C3: two constructions with the same columns, rows and seed visit the walls
\* in the same order and give the same wall array and the same rendered text;
\* the wall array and the text depend on the dimensions and the order only.
C3_Determinism ==
    (pc = "done" /\ prev.maze.columns = maze.columns /\ prev.maze.rows = maze.rows) =>
        /\ prev.maze.seed = maze.seed => prev.order = visited
        /\ prev.order = visited =>
              /\ prev.maze.walls = maze.walls
              /\ (prev.text # NoText /\ text # NoText) => prev.text = text

\* a second 3 x 3 construction with the supplied seed of the first, both rendered
C3_Witness ==
    /\ pc = "done"
    /\ maze.columns = 3 /\ maze.rows = 3
    /\ args.seed = 3 /\ maze.seed = 3
    /\ prev.maze.columns = 3 /\ prev.maze.rows = 3 /\ prev.maze.seed = 3
    /\ ~IsIdentity(visited)
    /\ text # NoText /\ prev.text = text

\* C4: new panics whenever columns = 0 or rows = 0 (also when only one of
\* them is), before a wall array, a wall order or a maze exists.
C4_ZeroDimensionPanics ==
    (pc # "idle" /\ (args.columns = 0 \/ args.rows = 0)) =>
        /\ pc = "panicked"
        /\ maze = NoMaze
        /\ wall_indices = <<>> /\ cell_sets = <<>> /\ generator = NoGenerator
        /\ text = NoText

\* new(0, 2, Some(1)) has panicked
C4_Witness ==
    /\ pc = "panicked"
    /\ args = [columns |-> 0, rows |-> 2, seed |-> 1]

\* C5: on a finished maze get_right_wall and get_bottom_wall return None
\* exactly when row >= rows or column >= columns, Some(_) for every cell of
\* the grid, and never panic.
C5_OutOfRangeIsNone ==
    pc = "done" =>
        \A row \in 0 .. MaxRows + 1, column \in 0 .. MaxColumns + 1 :
            LET outside == row >= maze.rows \/ column >= maze.columns
                right_wall == get_right_wall(maze, row, column)
                bottom_wall == get_bottom_wall(maze, row, column)
            IN  /\ outside => right_wall = None /\ bottom_wall = None
                /\ ~outside => /\ right_wall \in {Some(TRUE), Some(FALSE)}
                               /\ bottom_wall \in {Some(TRUE), Some(FALSE)}

\* a 2 x 3 maze asked about a column out of range in a row of the grid, and
\* about a row out of range in a column of the grid
C5_Witness ==
    /\ pc = "done"
    /\ maze.columns = 2 /\ maze.rows = 3
    /\ get_right_wall(maze, 0, 2) = None
    /\ get_bottom_wall(maze, 3, 0) = None
    /\ get_right_wall(maze, 0, 0) = Some(FALSE)
    /\ get_bottom_wall(maze, 1, 1) \in {Some(TRUE), Some(FALSE)}

\* C6: once the maze is built, get_right_wall(row, columns - 1) is present
\* for every row of the grid and get_bottom_wall(rows - 1, column) is present
\* for every column of the grid, whatever the wall array holds.
C6_BoundaryWallsPresent ==
    MazeBuilt =>
        /\ \A row \in 0 .. maze.rows - 1 :
              get_right_wall(maze, row, maze.columns - 1) = Some(TRUE)
        /\ \A column \in 0 .. maze.columns - 1 :
              get_bottom_wall(maze, maze.rows - 1, column) = Some(TRUE)

\* a finished 3 x 3 maze whose wall array is cleared at the index an
\* unguarded lookup of the right wall of (0, 2) would read
C6_Witness ==
    /\ pc = "done"
    /\ maze.columns = 3 /\ maze.rows = 3
    /\ maze.walls[2] = FALSE
    /\ get_right_wall(maze, 0, 2) = Some(TRUE)
    /\ get_bottom_wall(maze, 2, 0) = Some(TRUE)

\* the newline-terminated lines of a text
RECURSIVE LinesFrom(_, _)
LinesFrom(chars, line) ==
    IF chars = <<>> THEN (IF line = <<>> THEN <<>> ELSE <<line>>)
    ELSE IF Head(chars) = NEWLINE THEN <<line>> \o LinesFrom(Tail(chars), <<>>)
    ELSE LinesFrom(Tail(chars), Append(line, Head(chars)))

Lines(chars) == LinesFrom(chars, <<>>)

\* new(2, 3, Some(0)), rendered
Rendered2x3 ==
    /\ pc = "done"
    /\ args = [columns |-> 2, rows |-> 3, seed |-> 0]
    /\ text # NoText

\* C7 as the specification states it: new(2, 3, Some(0)) renders the four
\* lines "_____", "|_|_|", "|_|_|", "|_|_|".
C7_AllWallsRendered ==
    Rendered2x3 =>
        Lines(text) = << <<"_", "_", "_", "_", "_">>,
                         <<"|", "_", "|", "_", "|">>,
                         <<"|", "_", "|", "_", "|">>,
                         <<"|", "_", "|", "_", "|">> >>

\* C7, amended: new(2, 3, Some(0)) renders the four lines "_____", "|   |",
\* "| | |", "|_|_|".
C7_CarvedLinesRendered ==
    Rendered2x3 =>
        Lines(text) = << <<"_", "_", "_", "_", "_">>,
                         <<"|", " ", " ", " ", "|">>,
                         <<"|", " ", "|", " ", "|">>,
                         <<"|", "_", "|", "_", "|">> >>

C7_Witness ==
    /\ Rendered2x3
    /\ Len(Lines(text)) = 4

\* C8: new(2, 3, Some(0)) renders exactly "_____\n|   |\n| | |\n|_|_|\n":
\* row 0 has its inner right wall and both bottom walls cleared, row 1 keeps
\* its inner right wall and has both bottom walls cleared, row 2 keeps all.
C8_Display2x3 ==
    (pc = "done" /\ args = [columns |-> 2, rows |-> 3, seed |-> 0]) =>
        /\ get_right_wall(maze, 0, 0) = Some(FALSE)
        /\ get_bottom_wall(maze, 0, 0) = Some(FALSE)
        /\ get_bottom_wall(maze, 0, 1) = Some(FALSE)
        /\ get_right_wall(maze, 1, 0) = Some(TRUE)
        /\ get_bottom_wall(maze, 1, 0) = Some(FALSE)
        /\ get_bottom_wall(maze, 1, 1) = Some(FALSE)
        /\ get_right_wall(maze, 2, 0) = Some(TRUE)
        /\ get_bottom_wall(maze, 2, 0) = Some(TRUE)
        /\ get_bottom_wall(maze, 2, 1) = Some(TRUE)
        /\ text # NoText =>
              text = << "_", "_", "_", "_", "_", "\n",
                        "|", " ", " ", " ", "|", "\n",
                        "|", " ", "|", " ", "|", "\n",
                        "|", "_", "|", "_", "|", "\n" >>

C8_Witness ==
    /\ Rendered2x3
    /\ Len(text) = 24
    /\ visited = <<0, 1, 2, 3, 4, 5, 6>>

\* C9: a 1 x 1 maze has no stored walls and, for any seed, supplied or
\* drawn, renders exactly "___\n|_|\n".
C9_Display1x1 ==
    (MazeBuilt /\ maze.columns = 1 /\ maze.rows = 1) =>
        /\ maze.walls = <<>>
        /\ text # NoText => text = <<"_", "_", "_", "\n", "|", "_", "|", "\n">>

\* new(1, 1, None) with a nonzero drawn seed, rendered
C9_Witness ==
    /\ pc = "done"
    /\ args = [columns |-> 1, rows |-> 1, seed |-> NoSeed]
    /\ maze.seed = 3
    /\ text # NoText

\* C10: when the seed is 0 no generator is made from it, the walls are
\* visited in increasing index order 0, 1, ..., total_walls - 1, and the
\* result is a perfect maze.
C10_ZeroSeedIdentityOrder ==
    (MazeBuilt /\ maze.seed = 0) =>
        /\ generator = NoGenerator
        /\ visited \o wall_indices
              = identity_order(total_walls_of(maze.columns, maze.rows))
        /\ pc = "done" =>
              /\ Len(visited) = total_walls_of(maze.columns, maze.rows)
              /\ IsIdentity(visited)
              /\ Connected(maze) /\ Acyclic(maze)

\* new(3, 3, Some(0)) has visited the walls 0 .. 11 in that order
C10_Witness ==
    /\ pc = "done"
    /\ args = [columns |-> 3, rows |-> 3, seed |-> 0]
    /\ visited = <<0, 1, 2, 3, 4, 5, 6, 7, 8, 9, 10, 11>>
    /\ Connected(maze)


\* ------------------------------------------------------------ accessors
columns(self) == self.columns

rows(self) == self.rows

seed(self) == self.seed

\* C11: columns(), rows() and seed() of a finished maze return what new was
\* given; with no seed supplied, seed() returns the drawn value the wall order
\* was made from, and new(columns, rows, Some(maze.seed())) gives the same
\* wall array again.
C11_AccessorsAndReproduction ==
    pc = "done" =>
        /\ columns(maze) = args.columns
        /\ rows(maze) = args.rows
        /\ args.seed # NoSeed => seed(maze) = args.seed
        /\ seed(maze) \in Seeds
        /\ visited = wall_order(Len(visited), seed(maze)).wall_indices
        /\ generator = wall_order(Len(visited), seed(maze)).generator
        /\ ( /\ prev.args = [columns |-> args.columns, rows |-> args.rows,
                             seed |-> NoSeed]
             /\ args.seed = seed(prev.maze) )
           => maze.walls = prev.maze.walls

\* new(3, 3, None) drew the seed 4 and shuffled; new(3, 3, Some(4)) has
\* then built the same walls
C11_Witness ==
    /\ pc = "done"
    /\ prev.args = [columns |-> 3, rows |-> 3, seed |-> NoSeed]
    /\ seed(prev.maze) = 4
    /\ args = [columns |-> 3, rows |-> 3, seed |-> 4]
    /\ ~IsIdentity(visited)
    /\ maze.walls = prev.maze.walls


\* the loop of tumble_walls has visited every wall of the order
AllWallsProcessed == pc = "done" \/ (pc = "tumble" /\ wall_indices = <<>>)

NonEmptySets == {set_id \in DOMAIN cell_sets : cell_sets[set_id] # {}}

\* C12: after all walls have been processed exactly one set of the partition
\* is non-empty, and it holds all rows * columns cell ids.
C12_OneComponentRemains ==
    AllWallsProcessed =>
        /\ Cardinality(NonEmptySets) = 1
        /\ \A set_id \in NonEmptySets :
              cell_sets[set_id] = 0 .. maze.rows * maze.columns - 1

\* a 2 x 3 maze carved in a shuffled order whose last set is not that of cell 0
C12_Witness ==
    /\ pc = "done"
    /\ maze.columns = 2 /\ maze.rows = 3
    /\ ~IsIdentity(visited)
    /\ cell_sets[0] = {}
    /\ \E set_id \in DOMAIN cell_sets : cell_sets[set_id] = 0 .. 5


NewlineCount(chars) == Cardinality({i \in 1 .. Len(chars) : chars[i] = NEWLINE})

\* C13: the rendered text has exactly rows + 1 newline-terminated lines; the
\* first is 2 * columns + 1 '_' characters, as wide as every row line; the
\* line of row r is '|' and then, for each column c in increasing order, '_'
\* if get_bottom_wall(r, c) is present else ' ', then '|' if
\* get_right_wall(r, c) is present else ' '.
C13_RenderedLayout ==
    text # NoText =>
        LET lines == Lines(text)
        IN  /\ text[Len(text)] = NEWLINE
            /\ NewlineCount(text) = maze.rows + 1
            /\ Len(lines) = maze.rows + 1
            /\ lines[1] = [i \in 1 .. 2 * maze.columns + 1 |-> "_"]
            /\ \A r \in 0 .. maze.rows - 1 :
                  /\ Len(lines[r + 2]) = Len(lines[1])
                  /\ lines[r + 2][1] = "|"
                  /\ \A c \in 0 .. maze.columns - 1 :
                        /\ lines[r + 2][2 * c + 2] =
                              (IF get_bottom_wall(maze, r, c) = Some(TRUE)
                               THEN "_" ELSE " ")
                        /\ lines[r + 2][2 * c + 3] =
                              (IF get_right_wall(maze, r, c) = Some(TRUE)
                               THEN "|" ELSE " ")

\* a rendered 3 x 2 maze, carved in a shuffled order, that shows a cleared
\* bottom wall and a cleared right wall in its row 0
C13_Witness ==
    /\ text # NoText
    /\ maze.columns = 3 /\ maze.rows = 2
    /\ ~IsIdentity(visited)
    /\ Lines(text)[2][2] = " "
    /\ Lines(text)[2][5] = " "
    /\ Lines(text)[2][7] = "|"

\* C14 as the specification states it: the top border has exactly
\* 2 * columns + vertical_walls + 2 wall characters, vertical_walls = columns - 1.
C14_TopBorderCountsColumnsTwice ==
    text # NoText =>
        LET vertical_walls == maze.columns - 1
        IN  Len(Lines(text)[1]) = 2 * maze.columns + vertical_walls + 2

\* C14, amended: the top border has exactly vertical_walls + columns + 2
\* (= 2 * columns + 1) wall characters, vertical_walls = columns - 1.
C14_TopBorderWidth ==
    text # NoText =>
        LET vertical_walls == maze.columns - 1
            top == Lines(text)[1]
        IN  /\ Len(top) = vertical_walls + maze.columns + 2
            /\ \A i \in 1 .. Len(top) : top[i] = H_WALL

\* a rendered maze of 3 columns, with its top border of 7 characters
C14_Witness ==
    /\ text # NoText
    /\ maze.columns = 3
    /\ Len(Lines(text)[1]) = 7


\* two cell ids are in one set of the partition
SameComponent(sets, a, b) ==
    \E set_id \in DOMAIN sets : a \in sets[set_id] /\ b \in sets[set_id]

Partition(sets) == {sets[set_id] : set_id \in DOMAIN sets} \ {{}}

ComponentOf(sets, a) == UNION {S \in Partition(sets) : a \in S}

\* C17: a visited wall is cleared if and only if its two cells were in
\* different components just before the visit, and then the two components
\* are merged into one; if they were in the same component the wall stays
\* and neither the wall array nor the partition changes.
C17_BuilderStepRule ==
    [][ (pc = "tumble" /\ wall_indices # <<>> /\ pc' # "panicked") =>
          LET current_wall == Head(wall_indices)
              pair == cell_pair_from_wall(maze, current_wall)
              a == id(pair[1])
              b == id(pair[2])
          IN  /\ visited' = Append(visited, current_wall)
              /\ maze.walls[current_wall] = TRUE
              /\ maze'.walls[current_wall] = FALSE
                    <=> ~SameComponent(cell_sets, a, b)
              /\ \A w \in DOMAIN maze.walls \ {current_wall} :
                    maze'.walls[w] = maze.walls[w]
              /\ ~SameComponent(cell_sets, a, b) =>
                    Partition(cell_sets') =
                       (Partition(cell_sets)
                           \ {ComponentOf(cell_sets, a), ComponentOf(cell_sets, b)})
                       \union {ComponentOf(cell_sets, a) \union ComponentOf(cell_sets, b)}
              /\ SameComponent(cell_sets, a, b) =>
                    maze' = maze /\ cell_sets' = cell_sets
      ]_vars

\* a carve in a shuffled order that has cleared a wall and, at the last
\* visit, left a wall in place
C17_Witness ==
    /\ pc = "tumble"
    /\ maze.columns = 2 /\ maze.rows = 2
    /\ Len(visited) = 4
    /\ ~IsIdentity(visited)
    /\ maze.walls[visited[4]] = TRUE
    /\ maze.walls[visited[1]] = FALSE

\* wall ids asked of cell_pair_from_wall, also past the end of the wall array
WallIds == 0 .. 2 * total_walls_of(MaxColumns, MaxRows)

PairOf(self, wall_id) ==
    LET pair == cell_pair_from_wall(self, wall_id)
    IN  <<<<pair[1].row, pair[1].column>>, <<pair[2].row, pair[2].column>>>>

\* the pair C18 states for a wall id
StatedPair(self, wall_id) ==
    LET row == wall_id \div (2 * self.columns - 1)
        offset == wall_id % (2 * self.columns - 1)
    IN  IF offset < self.columns - 1
        THEN <<<<row, offset>>, <<row, offset + 1>>>>
        ELSE <<<<row, offset - (self.columns - 1)>>,
               <<row + 1, offset - (self.columns - 1)>>>>

\* C18 as stated: cell_pair_from_wall gives the stated pair, and in
\* particular wall 0 separates (0,0)/(0,1), wall columns-1 (0,0)/(1,0), wall
\* columns (0,1)/(1,1) and wall 2*columns-1 (1,0)/(1,1).
C18_PairsAndExamples ==
    MazeBuilt =>
        /\ \A wall_id \in WallIds : PairOf(maze, wall_id) = StatedPair(maze, wall_id)
        /\ PairOf(maze, 0) = <<<<0, 0>>, <<0, 1>>>>
        /\ PairOf(maze, maze.columns - 1) = <<<<0, 0>>, <<1, 0>>>>
        /\ PairOf(maze, maze.columns) = <<<<0, 1>>, <<1, 1>>>>
        /\ PairOf(maze, 2 * maze.columns - 1) = <<<<1, 0>>, <<1, 1>>>>

\* C18, amended: cell_pair_from_wall gives the stated pair for every
\* columns >= 1, and the four examples hold when columns >= 2.
C18_PairsAndExamplesFrom2Columns ==
    MazeBuilt =>
        /\ \A wall_id \in WallIds : PairOf(maze, wall_id) = StatedPair(maze, wall_id)
        /\ \A wall_id \in WallIds :
              /\ cell_pair_from_wall(maze, wall_id)[1].total_columns = maze.columns
              /\ cell_pair_from_wall(maze, wall_id)[2].total_columns = maze.columns
        /\ maze.columns >= 2 =>
              /\ PairOf(maze, 0) = <<<<0, 0>>, <<0, 1>>>>
              /\ PairOf(maze, maze.columns - 1) = <<<<0, 0>>, <<1, 0>>>>
              /\ PairOf(maze, maze.columns) = <<<<0, 1>>, <<1, 1>>>>
              /\ PairOf(maze, 2 * maze.columns - 1) = <<<<1, 0>>, <<1, 1>>>>

\* a maze of 3 columns and 3 rows: wall 2 is the bottom wall of (0, 0) and
\* wall 5 the right wall of (1, 0)
C18_Witness ==
    /\ MazeBuilt
    /\ maze.columns = 3 /\ maze.rows = 3
    /\ PairOf(maze, 2) = <<<<0, 0>>, <<1, 0>>>>
    /\ PairOf(maze, 5) = <<<<1, 0>>, <<1, 1>>>>

\* the pairs of horizontally or vertically adjacent cells of the grid
AdjacentPairs(self) ==
    {e \in Cells(self) \X Cells(self) :
        \/ e[2] = <<e[1][1], e[1][2] + 1>>
        \/ e[2] = <<e[1][1] + 1, e[1][2]>>}

\* C19: for every columns, rows >= 1, cell_pair_from_wall is a bijection
\* between the wall ids 0 .. total_walls - 1 and the adjacent pairs of grid
\* cells: distinct ids give distinct pairs, every returned cell is in the
\* grid, and every adjacent pair is the image of exactly one wall id.
C19_WallPairBijection ==
    MazeBuilt =>
        LET ids == 0 .. (maze.columns - 1) * maze.rows
                        + (maze.rows - 1) * maze.columns - 1
        IN  /\ ids = DOMAIN maze.walls
            /\ \A v, w \in ids : PairOf(maze, v) = PairOf(maze, w) => v = w
            /\ \A w \in ids : PairOf(maze, w) \in AdjacentPairs(maze)
            /\ \A e \in AdjacentPairs(maze) :
                  Cardinality({w \in ids : PairOf(maze, w) = e}) = 1

\* a 3 x 3 grid, its 12 walls and its 12 adjacent pairs
C19_Witness ==
    /\ MazeBuilt
    /\ maze.columns = 3 /\ maze.rows = 3
    /\ Cardinality(AdjacentPairs(maze)) = 12
    /\ Cardinality({PairOf(maze, w) : w \in DOMAIN maze.walls}) = 12

\* C20: in a finished maze, for a cell with column < columns - 1,
\* get_right_wall(row, column) is absent if and only if the wall id that
\* cell_pair_from_wall maps to ((row, column), (row, column + 1)) was
\* cleared; and for a cell with row < rows - 1, get_bottom_wall(row, column)
\* is absent if and only if the wall id mapped to ((row, column),
\* (row + 1, column)) was cleared.
C20_QueryAndMapperAgree ==
    pc = "done" =>
        \A row \in 0 .. maze.rows - 1, column \in 0 .. maze.columns - 1 :
            /\ column < maze.columns - 1 =>
                  \E w \in DOMAIN maze.walls :
                      /\ PairOf(maze, w) = <<<<row, column>>, <<row, column + 1>>>>
                      /\ get_right_wall(maze, row, column) = Some(FALSE)
                            <=> maze.walls[w] = FALSE
                      /\ get_right_wall(maze, row, column) = Some(TRUE)
                            <=> maze.walls[w] = TRUE
            /\ row < maze.rows - 1 =>
                  \E w \in DOMAIN maze.walls :
                      /\ PairOf(maze, w) = <<<<row, column>>, <<row + 1, column>>>>
                      /\ get_bottom_wall(maze, row, column) = Some(FALSE)
                            <=> maze.walls[w] = FALSE
                      /\ get_bottom_wall(maze, row, column) = Some(TRUE)
                            <=> maze.walls[w] = TRUE

\* a finished 3 x 2 maze, carved in a shuffled order, with the right wall of
\* (1, 0) cleared and the bottom wall of (0, 1) in place
C20_Witness ==
    /\ pc = "done"
    /\ maze.columns = 3 /\ maze.rows = 2
    /\ ~IsIdentity(visited)
    /\ get_right_wall(maze, 1, 0) = Some(FALSE)
    /\ get_bottom_wall(maze, 0, 1) = Some(TRUE)

\* the i32 values next to v
Near(v) ==
    {v} \union (IF v > I32_MIN THEN {v - 1} ELSE {})
        \union (IF v < I32_MAX THEN {v + 1} ELSE {})

\* the (up to 8) cells surrounding a cell
Surrounding(cell) == {SimCell(x, y) : x \in Near(cell.x), y \in Near(cell.y)} \ {cell}

LiveNeighbours(cells, cell) == Cardinality(Surrounding(cell) \cap cells)

\* the rule of the Game of Life for one cell
AliveNext(cells, cell) ==
    IF cell \in cells
    THEN LiveNeighbours(cells, cell) \in {2, 3}
    ELSE LiveNeighbours(cells, cell) = 3

\* living_cells is what the rule makes of before
LifeStepRule ==
    /\ \A cell \in before \union living_cells
                       \union UNION {Surrounding(c) : c \in before} :
          cell \in living_cells <=> AliveNext(before, cell)
    /\ before = {} => living_cells = {}
    /\ before \in {Block, Beehive, Tub} => living_cells = before
    /\ before = BlinkerStart => living_cells = BlinkerEnd
    /\ before = BlinkerEnd => living_cells = BlinkerStart
    /\ before = ToadStart => living_cells = ToadEnd
    /\ before = ToadEnd => living_cells = ToadStart

\* C15: simulate() returns, and after it a cell is alive if and only if, in
\* the state before the step, it was alive with exactly 2 or 3 live
\* neighbours among its 8 surrounding cells or dead with exactly 3; an empty
\* environment stays empty, block, beehive and tub are unchanged, blinker and
\* toad return to their start after two steps.
C15_LifeStep ==
    /\ env_pc # "simulate panicked"
    /\ generation > 0 => LifeStepRule

\* the position lies inside the viewport
Inside(self, x, y) ==
    /\ self.x <= x /\ x < self.x + self.width
    /\ self.y - self.height < y /\ y <= self.y

\* the text shows the living mark at the places of the cells, each on line
\* y0 - y at character column x - x0
ShowsLiving(self, chars, cells) ==
    \A c \in cells :
        /\ self.y - c.y + 1 \in DOMAIN Lines(chars)
        /\ c.x - self.x + 1 \in DOMAIN Lines(chars)[self.y - c.y + 1]
        /\ Lines(chars)[self.y - c.y + 1][c.x - self.x + 1] = LIVING

\* the text shows dead cells everywhere but at the places of the cells
ShowsDeadElsewhere(self, chars, cells) ==
    /\ Len(Lines(chars)) = self.height
    /\ \A line \in 0 .. self.height - 1 :
          /\ Len(Lines(chars)[line + 1]) = self.width
          /\ \A col \in 0 .. self.width - 1 :
                (\A c \in cells : <<line, col>> # <<self.y - c.y, c.x - self.x>>)
                    => Lines(chars)[line + 1][col + 1] = DEAD

\* C16: for any viewport and any position (x, y) inside it, after clear()
\* followed by set_living(x, y) the text shows 'x' on line y0 - y at
\* character column x - x0 and dead cells everywhere else; after
\* fill_viewport every living cell of the environment inside the viewport is
\* shown at that position.
C16_ViewportShowsPositions ==
    (viewport # NoViewport /\ vtext # NoText) =>
        /\ (reset_by = "clear" /\ Cardinality(marked) = 1) =>
              /\ \A m \in marked : Inside(viewport, m.x, m.y)
              /\ ShowsLiving(viewport, vtext, marked)
              /\ ShowsDeadElsewhere(viewport, vtext, marked)
        /\ reset_by = "fill" =>
              ShowsLiving(viewport, vtext,
                          {c \in living_cells : Inside(viewport, c.x, c.y)})

\* ------------------------------------------------- array-indexed union-find
\* every cell its own root
uf_new(total_cells) == [cell_id \in 0 .. total_cells - 1 |-> cell_id]

RECURSIVE uf_root(_, _)
uf_root(parent, cell_id) ==
    IF parent[cell_id] = cell_id THEN cell_id
    ELSE uf_root(parent, parent[cell_id])

RECURSIVE uf_path(_, _)
uf_path(parent, cell_id) ==
    IF parent[cell_id] = cell_id THEN {cell_id}
    ELSE {cell_id} \union uf_path(parent, parent[cell_id])

\* find with path compression: the root, and the array with every cell of
\* the path pointing at the root
uf_find(parent, cell_id) ==
    LET root == uf_root(parent, cell_id)
    IN  [root |-> root,
         parent |-> [c \in DOMAIN parent |->
                        IF c \in uf_path(parent, cell_id) THEN root ELSE parent[c]]]

\* union: already connected, or the second root is hung under the first
uf_union(parent, a, b) ==
    LET find_a == uf_find(parent, a)
        find_b == uf_find(find_a.parent, b)
    IN  IF find_a.root = find_b.root
        THEN [connected |-> TRUE, parent |-> find_b.parent]
        ELSE [connected |-> FALSE,
              parent |-> [find_b.parent EXCEPT ![find_b.root] = find_a.root]]

\* the visit of one wall: the walls and the array after it
uf_visit(state, current_wall) ==
    LET pair == cell_pair_from_wall(state.self, current_wall)
    IN  CHOOSE next \in
            {[self |-> IF merged.connected THEN state.self
                       ELSE [state.self EXCEPT !.walls[current_wall] = FALSE],
              parent |-> merged.parent] :
                merged \in {uf_union(state.parent, id(pair[1]), id(pair[2]))}} : TRUE

\* the carving loop over the walls of order, in order, on the union-find
RECURSIVE uf_tumble_walls(_, _)
uf_tumble_walls(state, order) ==
    IF order = <<>> THEN state
    ELSE CHOOSE final \in
            {uf_tumble_walls(next, Tail(order)) :
                next \in {uf_visit(state, Head(order))}} : TRUE

\* the union-find version after the walls visited so far
uf_after(self, order) ==
    LET final == uf_tumble_walls(
                    [self |-> [self EXCEPT !.walls = [w \in DOMAIN self.walls |-> TRUE]],
                     parent |-> uf_new(self.rows * self.columns)], order)
    IN  [walls |-> final.self.walls, parent |-> final.parent]

\* C21: an array-indexed union-find with path compression in the place of
\* the list of sets leaves the maze unchanged: on every grid and in every
\* wall order both versions give the same connected / not connected answer
\* at every step and the same wall array, the final one included.
C21_UnionFindRefines ==
    MazeBuilt =>
        \E uf \in {uf_after(maze, visited)} :
            /\ uf.walls = maze.walls
            /\ wall_indices # <<>> =>
                  LET pair == cell_pair_from_wall(maze, Head(wall_indices))
                      a == id(pair[1])
                      b == id(pair[2])
                  IN  uf_union(uf.parent, a, b).connected
                         <=> get_set_with_cell(cell_sets, a)
                                = get_set_with_cell(cell_sets, b)

\* a finished 3 x 2 maze carved in a shuffled order, some walls left in
\* place, where the union-find holds a chain that a find has to compress
C21_Witness ==
    /\ pc = "done"
    /\ maze.columns = 3 /\ maze.rows = 2
    /\ ~IsIdentity(visited)
    /\ \E w \in DOMAIN maze.walls : maze.walls[w] = TRUE
    /\ \E uf \in {uf_after(maze, visited)} :
          /\ uf.walls = maze.walls
          /\ \E c \in 0 .. 5 :
                uf.parent[c] # c /\ uf.parent[uf.parent[c]] # uf.parent[c]

\* C22: the wall array has exactly (columns-1)*rows + (rows-1)*columns
\* entries, and before the first wall is processed every entry is present;
\* for a 1 x 1 grid the array is empty, for a single row it has columns - 1
\* entries and for a single column rows - 1.
C22_WallArrayInitial ==
    MazeBuilt =>
        /\ DOMAIN maze.walls =
              0 .. (maze.columns - 1) * maze.rows + (maze.rows - 1) * maze.columns - 1
        /\ (pc = "tumble" /\ visited = <<>>) =>
              \A w \in DOMAIN maze.walls : maze.walls[w] = TRUE
        /\ (maze.columns = 1 /\ maze.rows = 1) => DOMAIN maze.walls = {}
        /\ maze.rows = 1 => Cardinality(DOMAIN maze.walls) = maze.columns - 1
        /\ maze.columns = 1 => Cardinality(DOMAIN maze.walls) = maze.rows - 1

\* a 3 x 2 maze before its first wall is visited: 7 walls, all present
C22_Witness ==
    /\ pc = "tumble"
    /\ visited = <<>>
    /\ maze.columns = 3 /\ maze.rows = 2
    /\ Cardinality(DOMAIN maze.walls) = 7
    /\ \A w \in DOMAIN maze.walls : maze.walls[w] = TRUE

\* the sequence holds each of the wall ids of the maze exactly once
EachWallOnce(self, order) ==
    /\ Len(order) = Cardinality(DOMAIN self.walls)
    /\ \A w \in DOMAIN self.walls :
          Cardinality({i \in 1 .. Len(order) : order[i] = w}) = 1

\* C23: for every columns, rows >= 1 and every wall order, construction
\* never fails (both set lookups succeed, no wall index or cell id is out of
\* range), visits each wall id exactly once, and terminates: every step of
\* the loop is the visit of the next wall and leaves one wall less to visit,
\* and the maze is returned when none is left.
C23_TerminatesWithoutFailure ==
    /\ [](pc # "panicked")
    /\ [](MazeBuilt => EachWallOnce(maze, visited \o wall_indices))
    /\ [](pc = "done" => wall_indices = <<>> /\ EachWallOnce(maze, visited))
    /\ [][pc = "tumble" =>
             IF wall_indices # <<>>
             THEN /\ pc' = "tumble"
                  /\ wall_indices' = Tail(wall_indices)
                  /\ visited' = Append(visited, Head(wall_indices))
             ELSE pc' = "done" /\ visited' = visited]_vars

\* a 3 x 2 maze finished after its 7 walls were visited in a shuffled order
C23_Witness ==
    /\ pc = "done"
    /\ maze.columns = 3 /\ maze.rows = 2
    /\ ~IsIdentity(visited)
    /\ Len(visited) = 7
    /\ wall_indices = <<>>

\* C24: at every point of the carving loop the non-empty sets of the
\* partition are pairwise disjoint and their union is the set of the cell ids
\* 0 .. rows * columns - 1: every cell belongs to exactly one set.
C24_PartitionInvariant ==
    MazeBuilt =>
        /\ \A i, j \in DOMAIN cell_sets : i # j => cell_sets[i] \cap cell_sets[j] = {}
        /\ UNION {cell_sets[i] : i \in DOMAIN cell_sets} = 0 .. maze.rows * maze.columns - 1
        /\ \A cell_id \in 0 .. maze.rows * maze.columns - 1 :
              Cardinality({i \in DOMAIN cell_sets : cell_id \in cell_sets[i]}) = 1

\* in the middle of carving a 3 x 2 maze in a shuffled order: three sets are
\* left, one of them of three cells or more, and others have been emptied
C24_Witness ==
    /\ pc = "tumble"
    /\ maze.columns = 3 /\ maze.rows = 2
    /\ ~IsIdentity(visited \o wall_indices)
    /\ wall_indices # <<>>
    /\ Cardinality(NonEmptySets) = 3
    /\ \E i \in NonEmptySets : Cardinality(cell_sets[i]) >= 3

\* the id of the cell at (row, column)
IdOf(self, cell) == id(Cell(cell[1], cell[2], self.columns))

\* C25: after every step of the carving loop two cells are in the same set
\* of the partition if and only if a path of cleared walls connects them, and
\* the graph of the cleared walls is acyclic at every step (a forest: it has
\* as many edges as cells less connected components).
C25_ConnectivityInvariant ==
    MazeBuilt =>
        \E E \in {Passages(maze)} :
            \E reach \in {[a \in Cells(maze) |-> ReachFrom(E, {a})]} :
                /\ \A a \in Cells(maze) :
                      {IdOf(maze, b) : b \in reach[a]}
                         = ComponentOf(cell_sets, IdOf(maze, a))
                /\ Cardinality(E) = Cardinality(Cells(maze))
                                       - Cardinality({reach[a] : a \in Cells(maze)})

\* in the middle of carving a 2 x 3 maze in a shuffled order: three walls
\* are cleared, and a visited wall was left in place between connected cells
C25_Witness ==
    /\ pc = "tumble"
    /\ maze.columns = 2 /\ maze.rows = 3
    /\ ~IsIdentity(visited \o wall_indices)
    /\ wall_indices # <<>>
    /\ Cardinality(Cleared(maze.walls)) = 3
    /\ \E i \in 1 .. Len(visited) : maze.walls[visited[i]] = TRUE
    /\ Cardinality(ReachFrom(Passages(maze), {<<0, 0>>})) \in 2 .. 5

\* C26: during construction a wall not yet visited is present, a wall's
\* state changes only at its own visit, a cleared wall is never set back to
\* present, and a wall left in place at its visit is present in the
\* finished maze.
C26_WallsMonotonic ==
    /\ [](MazeBuilt =>
             \A i \in 1 .. Len(wall_indices) : maze.walls[wall_indices[i]] = TRUE)
    /\ [][(MazeBuilt /\ pc' # "idle") =>
             /\ DOMAIN maze'.walls = DOMAIN maze.walls
             /\ \A w \in DOMAIN maze.walls :
                   /\ maze'.walls[w] # maze.walls[w] =>
                         /\ pc = "tumble" /\ wall_indices # <<>>
                         /\ w = Head(wall_indices)
                         /\ w \notin {visited[i] : i \in 1 .. Len(visited)}
                   /\ maze.walls[w] = FALSE => maze'.walls[w] = FALSE
                   /\ (w \in {visited[i] : i \in 1 .. Len(visited)} /\ maze.walls[w] = TRUE)
                         => maze'.walls[w] = TRUE]_vars

\* a finished maze, carved in a shuffled order, where a wall left in place
\* at its visit is still present after a later wall was cleared
C26_Witness ==
    /\ pc = "done"
    /\ maze.columns = 2 /\ maze.rows = 3
    /\ ~IsIdentity(visited)
    /\ \E i \in 1 .. Len(visited) - 1 :
          /\ maze.walls[visited[i]] = TRUE
          /\ maze.walls[visited[i + 1]] = FALSE

\* C27: for every columns, rows >= 1 the maze built with seed 0 has every
\* internal right wall of row 0 cleared, every internal right wall of the
\* rows below row 0 present, and every internal bottom wall cleared.
C27_UnshuffledShape ==
    (pc = "done" /\ maze.seed = 0) =>
        \A row \in 0 .. maze.rows - 1, column \in 0 .. maze.columns - 1 :
            /\ column < maze.columns - 1 =>
                  get_right_wall(maze, row, column) = Some(row # 0)
            /\ row < maze.rows - 1 =>
                  get_bottom_wall(maze, row, column) = Some(FALSE)

\* the 3 x 3 maze of seed 0 and three of its walls
C27_Witness ==
    /\ pc = "done"
    /\ args = [columns |-> 3, rows |-> 3, seed |-> 0]
    /\ get_right_wall(maze, 0, 1) = Some(FALSE)
    /\ get_right_wall(maze, 2, 0) = Some(TRUE)
    /\ get_bottom_wall(maze, 1, 2) = Some(FALSE)

\* C28: once the main loop of run has received Quit and dropped the
\* receiver, the input thread ends and run returns from joining it, with no
\* further key event needed; in particular a failed send of a Tick ends the
\* input thread, as every failed send does.
C28_ShutdownCompletes ==
    /\ [](send_result = "Err" => input_pc = "terminated")
    /\ (app_pc = "joining") ~> (app_pc = "returned" /\ input_pc = "terminated")

=============================================================================
